---- MODULE Spec2Model ----
(***************************************************************************)
(* Model of the tenant maintenance-ticket conversation engine:             *)
(*   supabase/functions/troubleshoot/index.ts  (the AI turn: handler,      *)
(*     loadTicketContext, callLLM, insertAiMessage, upsertConversation-    *)
(*     Summary, executeActions, hasProcessedAction)                        *)
(*   the client API (sendTenantMessage, updateTenantTicketStatus,          *)
(*     createTenantTicket, listTenantMessages).                            *)
(* Every await of the edge function is one step of a worker, so that       *)
(* concurrent invocations interleave exactly at the suspension points.     *)
(***************************************************************************)
EXTENDS Integers, Sequences, FiniteSets, TLC

\* ------------------------------------------------------------------ bounds
\* Number of invocations of the edge function in one run (one per worker).
NumWorkers == 3
\* Longest `actions` array the reasoning service returns in the model.
MaxActions == 2
\* Most persistence / network faults injected in one run.
MaxFaults == 1
\* Most human messages sent through sendTenantMessage in one run.
MaxHuman == 1
\* Invocations in the sequential executor specification.
SeqTurns == 2
\* Invocations in the concurrent specification.
RaceTurns == 2
\* Invocations in the sequential summarizer specification.
SumTurns == 3
\* Invocations in the sequential action-dispatch specification.
ActTurns == 2
\* Invocations in the observe-only specification.
ObsTurns == 3
\* Most direct status updates (updateTenantTicketStatus) in one run.
MaxDirect == 2
\* Longest message log built in the context-window specification.
MaxLog == 32

\* ------------------------------------------------------- program constants
\* loadTicketContext: .limit(30)
HISTORY_LIMIT == 30
\* observe-only line: messageText.substring(0, 160)
OBSERVE_PREFIX == 160

Workers == 1..NumWorkers

\* The one ticket that exists (createTenantTicket) and an id that names none.
TicketId == "t1"
MissingId == "t9"

ALLOWED_STATUSES_WithEmpty == {"open", "in_progress", "resolved", "cancelled", ""}

ALLOWED_STATUSES_WithFrozen == {"open", "in_progress", "resolved", "cancelled", "frozen"}

ALLOWED_STATUSES == {"open", "in_progress", "resolved", "cancelled"}

\* String.prototype.toLowerCase over the status spellings of the model.
\* "" is what String(params.status || '') yields for a missing status.
StatusSpellings ==
  {"in_progress", "IN_PROGRESS", "resolved", "Resolved", "cancelled", "frozen", ""}

toLowerCase(s) ==
  CASE s = "IN_PROGRESS" -> "in_progress"
    [] s = "Resolved" -> "resolved"
    [] OTHER -> s

\* sender_id '00000000-0000-0000-0000-000000000000' of system messages.
SYSTEM_SENDER == "00000000"
TENANT_SENDER == "tenant"

\* -------------------------------------------------- proposed actions (AI)
\* An action of the AI response: { type, params, action_id }.  NoId stands for
\* a missing action_id (undefined); a missing params.status, params.prompt or
\* params.reason is "" (each is read through `x || ''`).
NoId == "undefined"

UpdateStatus(id, s) ==
  [type |-> "update_ticket_status", params |-> [status |-> s], action_id |-> id]

RequestPhotos(id, p) ==
  [type |-> "request_photos", params |-> [prompt |-> p], action_id |-> id]

EscalateToAgent(id, r) ==
  [type |-> "escalate_to_agent", params |-> [reason |-> r], action_id |-> id]

\* A type the executor does not know (the prompt forbids assign_specialist,
\* the code takes `type: string`).
AssignSpecialist(id) ==
  [type |-> "assign_specialist", params |-> [status |-> ""], action_id |-> id]

ActionIds == {"a1", "a2"}

AllActions ==
  {UpdateStatus(id, s) : id \in ActionIds \cup {NoId}, s \in StatusSpellings}
    \cup {RequestPhotos(id, p) : id \in ActionIds \cup {NoId}, p \in {"", "photo of the leak"}}
    \cup {EscalateToAgent(id, r) : id \in ActionIds \cup {NoId}, r \in {"", "gas smell"}}
    \cup {AssignSpecialist(id) : id \in ActionIds \cup {NoId}}

\* All arrays of at most n actions drawn from S.
RECURSIVE Batches(_, _)
Batches(S, n) ==
  IF n = 0 THEN {<<>>}
  ELSE LET shorter == Batches(S, n - 1)
       IN shorter \cup {Append(b, a) : b \in {c \in shorter : Len(c) = n - 1}, a \in S}

\* ------------------------------------------------------------ environment
FaultKinds ==
  {"ticket_select", "messages_select", "reply_insert", "summary_select",
   "summary_write", "lookup", "status_update", "audit_insert", "webhook"}

\* Faults of the Message Store itself (tenant_messages reads and writes, and the
\* ticket read that precedes them).
StoreFaults ==
  {"ticket_select", "messages_select", "reply_insert", "lookup", "audit_insert"}

VARIABLES
  env,                       \* configuration of the run; never changes
  tenant_tickets,            \* table: TicketId -> [status, updated_at]
  tenant_messages,           \* table, in insertion order
  ai_conversation_summaries, \* table: sequence of rows [ticket_id, summary_text]
  clock,                     \* now()
  pc,                        \* per invocation: the await it is suspended at
  req,                       \* per invocation: the request body
  messages,                  \* per invocation: the rows loadTicketContext returned
  llm,                       \* per invocation: what the fetch of callLLM did
  ai,                        \* per invocation: what callLLM returned
  idx,                       \* per invocation: index of `action` in ai.actions
  existing,                  \* per invocation: upsertConversationSummary's `existing`
  pending,                   \* per invocation: the audit message about to be inserted
  summaryUpdate,             \* per invocation: upsertConversationSummary's argument
  faults,                    \* faults injected so far
  injected,                  \* kinds of the faults injected so far
  statusWrites,              \* history: ticket-status writes of the executor
  client                     \* client API: calls made, and the last call's outcome

vars ==
  <<env, tenant_tickets, tenant_messages, ai_conversation_summaries, clock, pc,
    req, messages, llm, ai, idx, existing, pending, summaryUpdate, faults, injected, statusWrites,
    client>>

NoRequest == [ticketId |-> "", messageText |-> "", observeOnly |-> FALSE]
NoAi == [reply |-> "", category |-> "", severity |-> "", summary_update |-> "", actions |-> <<>>]
NoRow == [found |-> FALSE, summary_text |-> <<>>]
NoPending == [body |-> <<>>, meta |-> [outcome |-> ""]]
NoCall == [calls |-> 0, status |-> "", result |-> ""]

Running == {"loadTicket", "loadMessages", "callLLM", "insertAiMessage",
            "summarySelect", "summaryWrite", "hasProcessedAction", "updateStatus",
            "webhook", "insertSystemActionMessage", "respond200", "respond500"}
\* The response sent: 200 {ok: true}, 500 {ok: false, error}, 400.
Ended == {"ok", "error", "bad_request"}

\* createTenantTicket: status 'open'.
createTenantTicket == [status |-> "open", updated_at |-> 0]

InitWith(e) ==
  /\ env = e
  /\ tenant_tickets = [t \in {TicketId} |-> createTenantTicket]
  /\ tenant_messages = <<>>
  /\ ai_conversation_summaries = <<>>
  /\ clock = 1
  /\ pc = [w \in Workers |-> "idle"]
  /\ req = [w \in Workers |-> NoRequest]
  /\ messages = [w \in Workers |-> <<>>]
  /\ llm = [w \in Workers |-> ""]
  /\ ai = [w \in Workers |-> NoAi]
  /\ idx = [w \in Workers |-> 0]
  /\ existing = [w \in Workers |-> NoRow]
  /\ pending = [w \in Workers |-> NoPending]
  /\ summaryUpdate = [w \in Workers |-> ""]
  /\ faults = 0
  /\ injected = {}
  /\ statusWrites = <<>>
  /\ client = NoCall

\* The outcomes a call of the given kind can have in this run: FALSE = it
\* succeeds, TRUE = it returns an error.
Fails(kind) ==
  IF kind \in env.faults /\ faults < MaxFaults THEN {FALSE, TRUE} ELSE {FALSE}

Inject(kind, f) ==
  /\ faults' = IF f THEN faults + 1 ELSE faults
  /\ injected' = IF f THEN injected \cup {kind} ELSE injected

\* ------------------------------------------------------------ Message Store
\* Rows of tenant_messages of one ticket, in table (insertion) order.
MessagesOf(tid) == SelectSeq(tenant_messages, LAMBDA m : m.ticket_id = tid)

\* .order('created_at', { ascending: true }): insertion sort on created_at.
RECURSIVE InsertByCreatedAt(_, _)
InsertByCreatedAt(sorted, m) ==
  IF sorted = <<>> THEN <<m>>
  ELSE IF sorted[Len(sorted)].created_at <= m.created_at THEN Append(sorted, m)
  ELSE Append(InsertByCreatedAt(SubSeq(sorted, 1, Len(sorted) - 1), m), sorted[Len(sorted)])

RECURSIVE OrderByCreatedAt(_)
OrderByCreatedAt(rows) ==
  IF rows = <<>> THEN <<>>
  ELSE InsertByCreatedAt(OrderByCreatedAt(SubSeq(rows, 1, Len(rows) - 1)), rows[Len(rows)])

\* .limit(n): the first n rows of the ordered result.
Limit(rows, n) == SubSeq(rows, 1, IF Len(rows) < n THEN Len(rows) ELSE n)

\* loadTicketContext: the messages query.
loadTicketContext(tid) == Limit(OrderByCreatedAt(MessagesOf(tid)), HISTORY_LIMIT)

\* toChatHistory: system messages are assistant turns, all others user turns.
toChatHistory(msgs) ==
  [i \in 1..Len(msgs) |->
     [role |-> IF msgs[i].is_system THEN "assistant" ELSE "user",
      content |-> msgs[i].body]]

\* A row of tenant_messages; created_at defaults to now().  `by` is history:
\* the invocation that inserted the row (0 for a human).
Message(tid, sender, body, isSystem, meta, by) ==
  [ticket_id |-> tid, sender_id |-> sender, body |-> body, is_system |-> isSystem,
   meta |-> meta, created_at |-> clock, by |-> by]

\* .contains('meta', { action_id: actionId }) with count 'exact'.
CountActionId(tid, actionId) ==
  Cardinality({i \in 1..Len(tenant_messages) :
     /\ tenant_messages[i].ticket_id = tid
     /\ "action_id" \in DOMAIN tenant_messages[i].meta
     /\ tenant_messages[i].meta.action_id = actionId})

\* `!actionId`: the id is missing or the empty string.
Falsy(actionId) == actionId \in {NoId, ""}

hasProcessedAction_Never(tid, actionId, queryFailed) == FALSE

\* A lookup that answers true when its query fails.
hasProcessedAction_FailClosed(tid, actionId, queryFailed) ==
  IF Falsy(actionId) THEN FALSE
  ELSE IF queryFailed THEN TRUE
  ELSE CountActionId(tid, actionId) > 0

\* The lookup without its `if (!actionId) return false`.
hasProcessedAction_NoGuard(tid, actionId, queryFailed) ==
  ~queryFailed /\ CountActionId(tid, actionId) > 0

\* A lookup that only counts the audit messages of applied actions.
hasProcessedAction_OkOnly(tid, actionId, queryFailed) ==
  Cardinality({i \in 1..Len(tenant_messages) :
     /\ tenant_messages[i].ticket_id = tid
     /\ "action_id" \in DOMAIN tenant_messages[i].meta
     /\ tenant_messages[i].meta.action_id = actionId
     /\ tenant_messages[i].meta.outcome = "ok"}) > 0

\* hasProcessedAction, given whether the count query returned an error.
hasProcessedAction(tid, actionId, queryFailed) ==
  IF Falsy(actionId) THEN FALSE
  ELSE IF queryFailed THEN FALSE
  ELSE CountActionId(tid, actionId) > 0

\* baseMeta of executeActions; JSON drops the undefined action_id.
BaseMeta(action) ==
  IF action.action_id = NoId
    THEN [action_type |-> action.type, params |-> action.params]
    ELSE [action_type |-> action.type, action_id |-> action.action_id,
          params |-> action.params]

ActionMeta(action, outcome) == BaseMeta(action) @@ [outcome |-> outcome]

\* ------------------------------------------------------- reasoning service
\* What the fetch of callLLM can do: throw, answer non-OK, never answer, answer
\* with content JSON.parse rejects, answer with a JSON object.
LLMOutcomes == {"network_error", "non_ok", "hang", "invalid_json", "json"}

ParseFallback_Empty ==
  [reply |-> "", category |-> "", severity |-> "", escalate |-> FALSE,
   summary_update |-> "", actions |-> <<>>]

\* The object callLLM builds when JSON.parse throws (it has no `actions`).
ParseFallback ==
  [reply |-> "I will help troubleshoot this issue. Could you share more detail or a photo? ",
   category |-> "general", severity |-> "normal", escalate |-> FALSE,
   summary_update |-> "Assistant joined the conversation to help with troubleshooting.",
   actions |-> <<>>]

\* The summary line the AI of invocation w reports.
AiLine(w) == "summary of turn " \o ToString(w)

\* summary_update of a JSON answer: absent, whitespace only, or a line.
SummaryUpdates(w) == IF env.lines THEN {"", " ", AiLine(w)} ELSE {""}

\* The actions the reasoning service proposes in the executor specifications.
ExecActions ==
  {UpdateStatus("a1", "in_progress"), UpdateStatus("a1", "Resolved"),
   UpdateStatus("a2", "frozen"), EscalateToAgent("a1", "gas smell"),
   AssignSpecialist("a1")}

\* The actions the reasoning service proposes in the concurrent specification.
RaceActions == {UpdateStatus("a1", "in_progress"), EscalateToAgent("a1", "gas smell")}

\* The `actions` arrays the reasoning service may answer with, by the menu of
\* the run.
ExecBatches == Batches(ExecActions, MaxActions)
RaceBatches == Batches(RaceActions, MaxActions)
SumBatches == {<<>>, <<UpdateStatus("a1", "in_progress"), EscalateToAgent("a2", "")>>}

\* The actions of the action-dispatch specification: every branch of the loop
\* body with supplied and with missing params, with and without an action_id.
ActActions ==
  {UpdateStatus("a1", ""), UpdateStatus("a2", "frozen"), UpdateStatus(NoId, "cancelled"),
   RequestPhotos("a1", ""), RequestPhotos("a2", "photo of the leak"),
   EscalateToAgent("a1", ""), EscalateToAgent("a2", "gas smell")}

\* Arrays of one action, and of one action followed by a photo request.
ActBatches ==
  {<<a>> : a \in ActActions} \cup {<<a, RequestPhotos("a1", "")>> : a \in ActActions}

\* The actions of the ordering specification: one of each executable type.
OrderActions ==
  {UpdateStatus("a1", "resolved"), RequestPhotos("a2", ""),
   EscalateToAgent(NoId, "gas smell")}
OrderBatches == Batches(OrderActions, MaxActions)

\* The arrays of the time-stamp specification: a status write followed by a
\* photo request, a rejected status followed by an escalation, a status in
\* capitals.
StampBatches ==
  {<<UpdateStatus(NoId, "cancelled"), RequestPhotos("a1", "")>>,
   <<UpdateStatus("a2", "frozen"), EscalateToAgent("a1", "")>>,
   <<UpdateStatus("a1", "Resolved")>>}

\* Actions without an action_id (missing, or the empty string), proposed
\* once or twice in a row.
NoIdActions ==
  {UpdateStatus(NoId, "resolved"), UpdateStatus("", "frozen"),
   RequestPhotos("", ""), EscalateToAgent(NoId, "")}
NoIdBatches == {<<a>> : a \in NoIdActions} \cup {<<a, a>> : a \in NoIdActions}

MenuBatches ==
  CASE env.menu = "exec" -> ExecBatches
    [] env.menu = "race" -> RaceBatches
    [] env.menu = "act" -> ActBatches
    [] env.menu = "order" -> OrderBatches
    [] env.menu = "stamp" -> StampBatches
    [] env.menu = "noid" -> NoIdBatches
    [] OTHER -> SumBatches

\* A key the JSON object does not have (the property reads as undefined).
Missing == "undefined"

\* reply, category and severity of a JSON answer that follows the prompt.
WellFormedReply ==
  [reply |-> "Turn off the water valve.", category |-> "plumbing", severity |-> "high"]

\* reply, category and severity of any JSON object: `parsed as {...}` is a
\* type assertion, the object is whatever the service sent.
ShapeReplies ==
  [reply : {"Turn off the water valve.", "", Missing},
   category : {"plumbing", "banana", Missing},
   severity : {"high", "catastrophic"}]

Replies == IF env.menu = "shape" THEN ShapeReplies ELSE {WellFormedReply}

\* The JSON objects the reasoning service may answer invocation w with.
Responses(w) ==
  {[reply |-> r.reply, category |-> r.category, severity |-> r.severity,
    summary_update |-> u, actions |-> b] :
      r \in Replies, u \in SummaryUpdates(w), b \in MenuBatches}

\* summaryUpdate.trim().length === 0, or a missing summaryUpdate.
Blank(u) == u \in {"", " "}

\* ----------------------------------------------------------------- handler
Active == {w \in Workers : pc[w] \in Running}

\* Where the handler suspends next once the summary is dealt with:
\* executeActions returns at once on an empty array.
ExecEntry(actions) == IF Len(actions) = 0 THEN "respond200" ELSE "hasProcessedAction"

\* POST with a body; invocations start in worker order.
Handler(w) ==
  /\ pc[w] = "idle"
  /\ w <= env.turns
  /\ \A v \in Workers : v < w => pc[v] # "idle"
  /\ Cardinality(Active) < env.parallel
  /\ \E r \in env.requests :
       /\ req' = [req EXCEPT ![w] = r]
       /\ pc' = [pc EXCEPT ![w] =
            IF r.ticketId = "" \/ r.messageText = "" THEN "bad_request" ELSE "loadTicket"]
  /\ UNCHANGED <<env, client, tenant_tickets, tenant_messages, ai_conversation_summaries, clock,
                 messages, llm, ai, idx, existing, pending, summaryUpdate, faults, injected,
                 statusWrites>>

\* LoadTicket without the `ticketError || !ticket` check.
LoadTicket_NoCheck(w) ==
  /\ pc[w] = "loadTicket"
  /\ pc' = [pc EXCEPT ![w] = "loadMessages"]
  /\ UNCHANGED <<env, client, tenant_tickets, tenant_messages, ai_conversation_summaries, clock,
                 req, messages, llm, ai, idx, existing, pending, summaryUpdate, faults,
                 injected, statusWrites>>

\* loadTicketContext, first await: the ticket row (.single()).
LoadTicket(w) ==
  /\ pc[w] = "loadTicket"
  /\ \E f \in Fails("ticket_select") :
       /\ Inject("ticket_select", f)
       /\ pc' = [pc EXCEPT ![w] =
            IF f \/ req[w].ticketId \notin DOMAIN tenant_tickets
              THEN "respond500" ELSE "loadMessages"]
  /\ UNCHANGED <<env, client, tenant_tickets, tenant_messages, ai_conversation_summaries, clock,
                 req, messages, llm, ai, idx, existing, pending, summaryUpdate, statusWrites>>

\* The message texts of the model and their lengths in characters.
TextLength(text) == CASE text = "" -> 0 [] text = "help" -> 4 [] OTHER -> 200

\* text.substring(0, n)
Substring(text, n) == IF TextLength(text) <= n THEN text ELSE "first chars of " \o text

\* The line observe-only mode appends.
ObserveLine(text) ==
  "New message at " \o ToString(clock) \o ": " \o Substring(text, OBSERVE_PREFIX)

\* loadTicketContext, second await: the message rows; then, in observe-only
\* mode, upsertConversationSummary is entered.
LoadMessages(w) ==
  /\ pc[w] = "loadMessages"
  /\ \E f \in Fails("messages_select") :
       /\ Inject("messages_select", f)
       /\ IF f
            THEN /\ pc' = [pc EXCEPT ![w] = "respond500"]
                 /\ UNCHANGED <<messages, summaryUpdate>>
            ELSE /\ messages' = [messages EXCEPT ![w] = loadTicketContext(req[w].ticketId)]
                 /\ IF req[w].observeOnly
                      THEN /\ summaryUpdate' =
                                [summaryUpdate EXCEPT ![w] = ObserveLine(req[w].messageText)]
                           /\ pc' = [pc EXCEPT ![w] = "summarySelect"]
                      ELSE /\ pc' = [pc EXCEPT ![w] = "callLLM"]
                           /\ UNCHANGED summaryUpdate
  /\ UNCHANGED <<env, client, tenant_tickets, tenant_messages, ai_conversation_summaries, clock,
                 req, llm, ai, idx, existing, pending, statusWrites>>

\* callLLM: the fetch and the parse of its answer.
CallLLM(w) ==
  /\ pc[w] = "callLLM"
  /\ \E o \in LLMOutcomes :
       /\ llm' = [llm EXCEPT ![w] = o]
       /\ IF o \in {"network_error", "non_ok"}
            THEN /\ pc' = [pc EXCEPT ![w] = "respond500"]
                 /\ UNCHANGED ai
          ELSE IF o = "hang"
            THEN /\ pc' = [pc EXCEPT ![w] = "hung"]
                 /\ UNCHANGED ai
          ELSE /\ pc' = [pc EXCEPT ![w] = "insertAiMessage"]
               /\ \E r \in (IF o = "json" THEN Responses(w) ELSE {ParseFallback}) :
                    ai' = [ai EXCEPT ![w] = r]
  /\ UNCHANGED <<env, client, tenant_tickets, tenant_messages, ai_conversation_summaries, clock,
                 req, messages, idx, existing, pending, summaryUpdate, faults, injected,
                 statusWrites>>

\* meta of the AI reply message.
ReplyMeta(r) ==
  [category |-> r.category, severity |-> r.severity, summary_update |-> r.summary_update]

\* insertAiMessage left out: the handler goes on without the reply row.
InsertAiMessage_Silent(w) ==
  /\ pc[w] = "insertAiMessage"
  /\ summaryUpdate' = [summaryUpdate EXCEPT ![w] = ai[w].summary_update]
  /\ idx' = [idx EXCEPT ![w] = 1]
  /\ pc' = [pc EXCEPT ![w] =
       IF ai[w].summary_update \in {"", " "}
         THEN (IF Len(ai[w].actions) = 0 THEN "respond200" ELSE "hasProcessedAction")
         ELSE "summarySelect"]
  /\ UNCHANGED <<env, client, tenant_tickets, tenant_messages, ai_conversation_summaries, clock,
                 req, messages, llm, ai, existing, pending, faults, injected, statusWrites>>

\* insertAiMessage with its error only logged: the handler goes on.
InsertAiMessage_Swallows(w) ==
  /\ pc[w] = "insertAiMessage"
  /\ \E f \in Fails("reply_insert") :
       /\ Inject("reply_insert", f)
       /\ IF f
            THEN UNCHANGED <<tenant_messages, clock>>
            ELSE /\ tenant_messages' = Append(tenant_messages,
                      [ticket_id |-> req[w].ticketId, sender_id |-> SYSTEM_SENDER,
                       body |-> <<ai[w].reply>>, is_system |-> TRUE,
                       meta |-> [category |-> ai[w].category, severity |-> ai[w].severity,
                                 summary_update |-> ai[w].summary_update],
                       created_at |-> clock, by |-> w])
                 /\ clock' = clock + 1
  /\ summaryUpdate' = [summaryUpdate EXCEPT ![w] = ai[w].summary_update]
  /\ idx' = [idx EXCEPT ![w] = 1]
  /\ pc' = [pc EXCEPT ![w] =
       IF ai[w].summary_update \in {"", " "}
         THEN (IF Len(ai[w].actions) = 0 THEN "respond200" ELSE "hasProcessedAction")
         ELSE "summarySelect"]
  /\ UNCHANGED <<env, client, tenant_tickets, ai_conversation_summaries, req, messages, llm, ai,
                 existing, pending, statusWrites>>

\* tenant_messages.body is `text not null`: an insert whose body is undefined
\* (sent as null) is rejected; an empty string is accepted.
BodyNotNull(text) == text # Missing

\* insertAiMessage; on success the handler goes on into upsertConversationSummary,
\* which returns at once for a blank summary_update, and then into executeActions.
InsertAiMessage(w) ==
  /\ pc[w] = "insertAiMessage"
  /\ \E f \in Fails("reply_insert") :
       /\ Inject("reply_insert", f)
       /\ IF f \/ ~BodyNotNull(ai[w].reply)
            THEN /\ pc' = [pc EXCEPT ![w] = "respond500"]
                 /\ UNCHANGED <<tenant_messages, clock, summaryUpdate, idx>>
            ELSE /\ tenant_messages' = Append(tenant_messages,
                      Message(req[w].ticketId, SYSTEM_SENDER, <<ai[w].reply>>, TRUE,
                              ReplyMeta(ai[w]), w))
                 /\ clock' = clock + 1
                 /\ summaryUpdate' = [summaryUpdate EXCEPT ![w] = ai[w].summary_update]
                 /\ idx' = [idx EXCEPT ![w] = 1]
                 /\ pc' = [pc EXCEPT ![w] =
                      IF Blank(ai[w].summary_update)
                        THEN ExecEntry(ai[w].actions) ELSE "summarySelect"]
  /\ UNCHANGED <<env, client, tenant_tickets, ai_conversation_summaries, req, messages, llm, ai,
                 existing, pending, statusWrites>>

\* ------------------------------------------------ upsertConversationSummary
SummaryRows(tid) ==
  SelectSeq(ai_conversation_summaries, LAMBDA r : r.ticket_id = tid)

Combined_Replace(prior, line) == <<line>>

\* `combined`: `${existing.summary_text}\n- ${summaryUpdate}`, or summaryUpdate
\* alone when there is no prior text.  A text is the sequence of its pieces.
Combined(prior, line) ==
  IF prior.found /\ prior.summary_text # <<>>
    THEN prior.summary_text \o <<"\n- ", line>> ELSE <<line>>

UpdateSummaryRows_Noop(tid, text) == ai_conversation_summaries

\* .update({summary_text}).eq('ticket_id', tid)
UpdateSummaryRows(tid, text) ==
  [i \in 1..Len(ai_conversation_summaries) |->
     IF ai_conversation_summaries[i].ticket_id = tid
       THEN [ai_conversation_summaries[i] EXCEPT !.summary_text = text, !.updated_at = clock]
       ELSE ai_conversation_summaries[i]]

\* The table's ticket reference is unique: an insert for a ticket that has a
\* row is rejected.
SummaryInsertRejected(tid) == SummaryRows(tid) # <<>>

\* Where the handler goes after upsertConversationSummary.
AfterSummary(w) ==
  IF req[w].observeOnly THEN "respond200" ELSE ExecEntry(ai[w].actions)

SummarySelect_Throws(w) ==
  /\ pc[w] = "summarySelect"
  /\ \E f \in Fails("summary_select") :
       /\ Inject("summary_select", f)
       /\ existing' = [existing EXCEPT ![w] =
            IF ~f /\ Len(SummaryRows(req[w].ticketId)) = 1
              THEN [found |-> TRUE,
                    summary_text |-> SummaryRows(req[w].ticketId)[1].summary_text]
              ELSE NoRow]
       /\ pc' = [pc EXCEPT ![w] = IF f THEN "respond500" ELSE "summaryWrite"]
  /\ UNCHANGED <<env, client, tenant_tickets, tenant_messages, ai_conversation_summaries, clock,
                 req, messages, llm, ai, idx, pending, summaryUpdate, statusWrites>>

\* First await: select summary_text ... .single(); an error leaves `existing` null.
SummarySelect(w) ==
  /\ pc[w] = "summarySelect"
  /\ \E f \in Fails("summary_select") :
       /\ Inject("summary_select", f)
       /\ existing' = [existing EXCEPT ![w] =
            IF ~f /\ Len(SummaryRows(req[w].ticketId)) = 1
              THEN [found |-> TRUE,
                    summary_text |-> SummaryRows(req[w].ticketId)[1].summary_text]
              ELSE NoRow]
  /\ pc' = [pc EXCEPT ![w] = "summaryWrite"]
  /\ UNCHANGED <<env, client, tenant_tickets, tenant_messages, ai_conversation_summaries, clock,
                 req, messages, llm, ai, idx, pending, summaryUpdate, statusWrites>>

\* Second await: update the row if one was read, insert one otherwise; an error
\* of either is only logged.
SummaryWrite(w) ==
  /\ pc[w] = "summaryWrite"
  /\ \E f \in Fails("summary_write") :
       /\ Inject("summary_write", f)
       /\ LET tid == req[w].ticketId
              combined == Combined(existing[w], summaryUpdate[w])
          IN IF f THEN UNCHANGED <<ai_conversation_summaries, clock>>
             ELSE IF existing[w].found
               THEN /\ ai_conversation_summaries' = UpdateSummaryRows(tid, combined)
                    /\ clock' = clock + 1
             ELSE IF SummaryInsertRejected(tid)
               THEN UNCHANGED <<ai_conversation_summaries, clock>>
             ELSE /\ ai_conversation_summaries' = Append(ai_conversation_summaries,
                       [ticket_id |-> tid, summary_text |-> combined, updated_at |-> clock])
                  /\ clock' = clock + 1
  /\ pc' = [pc EXCEPT ![w] = AfterSummary(w)]
  /\ UNCHANGED <<env, client, tenant_tickets, tenant_messages, req, messages, llm, ai, idx, existing,
                 pending, summaryUpdate, statusWrites>>

\* ----------------------------------------------------------- executeActions
\* `continue` / the end of the loop body: the next action, or return.
Continue(w) ==
  IF idx[w] < Len(ai[w].actions)
    THEN /\ idx' = [idx EXCEPT ![w] = idx[w] + 1]
         /\ pc' = [pc EXCEPT ![w] = "hasProcessedAction"]
    ELSE /\ pc' = [pc EXCEPT ![w] = "respond200"]
         /\ UNCHANGED idx

PhotoPrompt_Raw(action) == action.params.prompt

PhotoPrompt(action) ==
  IF action.params.prompt = ""
    THEN "Please share clear photos of the issue to assist diagnosis."
    ELSE action.params.prompt

EscalationReason(action) ==
  IF action.params.reason = "" THEN "Escalation requested by assistant." ELSE action.params.reason

StatusOf_Raw(action) == action.params.status

\* const status = String((action.params || {}).status || '').toLowerCase()
StatusOf(action) == toLowerCase(action.params.status)

\* Loop head: the idempotency lookup, then the synchronous part of the
\* dispatch on action.type up to the next await.
HasProcessedAction(w) ==
  /\ pc[w] = "hasProcessedAction"
  /\ LET action == ai[w].actions[idx[w]]
         status == StatusOf(action)
     IN \E f \in (IF Falsy(action.action_id) THEN {FALSE} ELSE Fails("lookup")) :
          /\ Inject("lookup", f)
          /\ IF hasProcessedAction(req[w].ticketId, action.action_id, f)
               THEN Continue(w) /\ UNCHANGED pending
             ELSE IF action.type = "update_ticket_status"
               THEN IF status \notin ALLOWED_STATUSES
                      THEN /\ pending' = [pending EXCEPT ![w] =
                                [body |-> <<"AI proposed invalid status '", status, "'. Skipped.">>,
                                 meta |-> ActionMeta(action, "skipped_invalid_status")]]
                           /\ pc' = [pc EXCEPT ![w] = "insertSystemActionMessage"]
                           /\ UNCHANGED idx
                      ELSE /\ pc' = [pc EXCEPT ![w] = "updateStatus"]
                           /\ UNCHANGED <<pending, idx>>
             ELSE IF action.type = "request_photos"
               THEN /\ pending' = [pending EXCEPT ![w] =
                         [body |-> <<PhotoPrompt(action)>>, meta |-> ActionMeta(action, "ok")]]
                    /\ pc' = [pc EXCEPT ![w] = "insertSystemActionMessage"]
                    /\ UNCHANGED idx
             ELSE IF action.type = "escalate_to_agent"
               THEN /\ pending' = [pending EXCEPT ![w] =
                         [body |-> <<"Escalated to agent: ", EscalationReason(action)>>,
                          meta |-> ActionMeta(action, "ok")]]
                    /\ pc' = [pc EXCEPT ![w] =
                         IF env.webhook THEN "webhook" ELSE "insertSystemActionMessage"]
                    /\ UNCHANGED idx
             ELSE Continue(w) /\ UNCHANGED pending
  /\ UNCHANGED <<env, client, tenant_tickets, tenant_messages, ai_conversation_summaries, clock,
                 req, messages, llm, ai, existing, summaryUpdate, statusWrites>>

UpdateTicketStatus_Throws(w) ==
  /\ pc[w] = "updateStatus"
  /\ \E f \in Fails("status_update") :
       /\ Inject("status_update", f)
       /\ IF f
            THEN /\ pc' = [pc EXCEPT ![w] = "respond500"]
                 /\ UNCHANGED <<tenant_tickets, clock, statusWrites, pending>>
            ELSE /\ tenant_tickets' = [tenant_tickets EXCEPT ![req[w].ticketId] =
                      [status |-> StatusOf(ai[w].actions[idx[w]]), updated_at |-> clock]]
                 /\ clock' = clock + 1
                 /\ statusWrites' = Append(statusWrites,
                      [by |-> w, action_id |-> ai[w].actions[idx[w]].action_id,
                       status |-> StatusOf(ai[w].actions[idx[w]])])
                 /\ pending' = [pending EXCEPT ![w] =
                      [body |-> <<"Status updated to ", StatusOf(ai[w].actions[idx[w]]),
                                 " by assistant.">>,
                       meta |-> ActionMeta(ai[w].actions[idx[w]], "ok")]]
                 /\ pc' = [pc EXCEPT ![w] = "insertSystemActionMessage"]
  /\ UNCHANGED <<env, client, tenant_messages, ai_conversation_summaries, req, messages, llm, ai, idx,
                 existing, summaryUpdate>>

\* tenant_tickets.update({status, updated_at}).eq('id', ticketId)
UpdateTicketStatus(w) ==
  /\ pc[w] = "updateStatus"
  /\ LET action == ai[w].actions[idx[w]]
         status == StatusOf(action)
     IN \E f \in Fails("status_update") :
          /\ Inject("status_update", f)
          /\ IF f
               THEN /\ pending' = [pending EXCEPT ![w] =
                         [body |-> <<"Failed to update status: ", "update error">>,
                          meta |-> ActionMeta(action, "failed") @@ [error |-> "update error"]]]
                    /\ UNCHANGED <<tenant_tickets, clock, statusWrites>>
               ELSE /\ tenant_tickets' = [tenant_tickets EXCEPT ![req[w].ticketId] =
                         [status |-> status, updated_at |-> clock]]
                    /\ clock' = clock + 1
                    /\ statusWrites' = Append(statusWrites,
                         [by |-> w, action_id |-> action.action_id, status |-> status])
                    /\ pending' = [pending EXCEPT ![w] =
                         [body |-> <<"Status updated to ", status, " by assistant.">>,
                          meta |-> ActionMeta(action, "ok")]]
  /\ pc' = [pc EXCEPT ![w] = "insertSystemActionMessage"]
  /\ UNCHANGED <<env, client, tenant_messages, ai_conversation_summaries, req, messages, llm, ai, idx,
                 existing, summaryUpdate>>

Webhook_Throws(w) ==
  /\ pc[w] = "webhook"
  /\ \E f \in Fails("webhook") :
       /\ Inject("webhook", f)
       /\ pc' = [pc EXCEPT ![w] = IF f THEN "respond500" ELSE "insertSystemActionMessage"]
  /\ UNCHANGED <<env, client, tenant_tickets, tenant_messages, ai_conversation_summaries, clock,
                 req, messages, llm, ai, idx, existing, pending, summaryUpdate, statusWrites>>

\* The optional notification of escalate_to_agent; a thrown fetch is ignored.
Webhook(w) ==
  /\ pc[w] = "webhook"
  /\ \E f \in Fails("webhook") : Inject("webhook", f)
  /\ pc' = [pc EXCEPT ![w] = "insertSystemActionMessage"]
  /\ UNCHANGED <<env, client, tenant_tickets, tenant_messages, ai_conversation_summaries, clock,
                 req, messages, llm, ai, idx, existing, pending, summaryUpdate, statusWrites>>

\* insertSystemActionMessage; its error is thrown out of executeActions into
\* the handler's catch.
InsertSystemActionMessage(w) ==
  /\ pc[w] = "insertSystemActionMessage"
  /\ \E f \in Fails("audit_insert") :
       /\ Inject("audit_insert", f)
       /\ IF f
            THEN /\ pc' = [pc EXCEPT ![w] = "respond500"]
                 /\ UNCHANGED <<tenant_messages, clock, idx>>
            ELSE /\ tenant_messages' = Append(tenant_messages,
                      Message(req[w].ticketId, SYSTEM_SENDER, pending[w].body, TRUE,
                              pending[w].meta, w))
                 /\ clock' = clock + 1
                 /\ Continue(w)
  /\ UNCHANGED <<env, client, tenant_tickets, ai_conversation_summaries, req, messages, llm, ai,
                 existing, pending, summaryUpdate, statusWrites>>

\* The handler returns its Response (200 from the try block, 500 from the
\* catch); the invocation's locals are gone.
Respond(w) ==
  /\ pc[w] \in {"respond200", "respond500"}
  /\ pc' = [pc EXCEPT ![w] = IF pc[w] = "respond200" THEN "ok" ELSE "error"]
  /\ req' = [req EXCEPT ![w] = NoRequest]
  /\ messages' = [messages EXCEPT ![w] = <<>>]
  /\ llm' = [llm EXCEPT ![w] = ""]
  /\ ai' = [ai EXCEPT ![w] = NoAi]
  /\ idx' = [idx EXCEPT ![w] = 0]
  /\ existing' = [existing EXCEPT ![w] = NoRow]
  /\ pending' = [pending EXCEPT ![w] = NoPending]
  /\ summaryUpdate' = [summaryUpdate EXCEPT ![w] = ""]
  /\ UNCHANGED <<env, client, tenant_tickets, tenant_messages, ai_conversation_summaries, clock,
                 faults, injected, statusWrites>>

\* ------------------------------------------------------------- client API
HumanMessages == SelectSeq(tenant_messages, LAMBDA m : ~m.is_system)

SendTenantMessage_Replace ==
  /\ Len(HumanMessages) < env.maxHuman
  /\ Cardinality(Active) < env.parallel
  /\ tenant_messages' =
       <<Message(TicketId, TENANT_SENDER, <<"the boiler is leaking">>, FALSE, <<>>, 0)>>
  /\ clock' = clock + 1
  /\ UNCHANGED <<env, client, tenant_tickets, ai_conversation_summaries, pc, req, messages, llm,
                 ai, idx, existing, pending, summaryUpdate, faults, injected, statusWrites>>

\* The ticket ids a caller passes to sendTenantMessage.
SendTargets == IF env.menu = "missing" THEN {TicketId, MissingId} ELSE {TicketId}

\* sendTenantMessage: the ticket row is selected with .single(); without a row
\* the call throws 'Failed to find ticket', otherwise a human message is
\* inserted (is_system and meta are left to their defaults).
SendTenantMessage ==
  /\ Cardinality(Active) < env.parallel
  /\ \E tid \in SendTargets :
       IF tid \in DOMAIN tenant_tickets
         THEN /\ Len(HumanMessages) < env.maxHuman
              /\ tenant_messages' = Append(tenant_messages,
                   Message(tid, TENANT_SENDER, <<"the boiler is leaking">>, FALSE, <<>>, 0))
              /\ clock' = clock + 1
              /\ UNCHANGED client
         ELSE /\ client.calls < MaxDirect
              /\ client' = [calls |-> client.calls + 1, status |-> "", result |-> "not_found"]
              /\ UNCHANGED <<tenant_messages, clock>>
  /\ UNCHANGED <<env, tenant_tickets, ai_conversation_summaries, pc, req, messages, llm, ai, idx,
                 existing, pending, summaryUpdate, faults, injected, statusWrites>>

\* A row as the client API returns it (isSystem ?? false, meta ?? {}).
TenantMessage(m) ==
  [ticketId |-> m.ticket_id, senderId |-> m.sender_id, body |-> m.body,
   createdAt |-> m.created_at, isSystem |-> m.is_system, meta |-> m.meta]

listTenantMessages_Limited(tid) ==
  [i \in 1..Len(loadTicketContext(tid)) |-> TenantMessage(loadTicketContext(tid)[i])]

\* listTenantMessages: every row of the ticket, ascending by created_at.
listTenantMessages(tid) ==
  [i \in 1..Len(MessagesOf(tid)) |-> TenantMessage(OrderByCreatedAt(MessagesOf(tid))[i])]

\* The definitions of tenant_tickets.status the repository holds: the enum
\* update_status, plain text, and text with a CHECK list.
ColumnTypes == {"enum", "text", "check"}

\* Whether the column takes the value (otherwise the update returns an error).
\* The enum's values are those of the UpdateStatus type.
ColumnAccepts(column, s) ==
  CASE column = "text" -> TRUE
    [] column = "check" -> s \in {"open", "in_progress", "resolved", "closed"}
    [] OTHER -> s \in {"open", "in_progress", "resolved", "cancelled"}

\* The status values a caller passes to updateTenantTicketStatus (the
\* UpdateStatus type is erased at run time).
DirectStatuses == {"resolved", "cancelled", "closed", "bogus"}

\* A direct update that stamps the row only when the status value changes.
UpdateTenantTicketStatus_KeepStamp ==
  /\ client.calls < MaxDirect
  /\ Cardinality(Active) < env.parallel
  /\ \E s \in DirectStatuses :
       IF ColumnAccepts(env.column, s)
         THEN /\ tenant_tickets' = [tenant_tickets EXCEPT ![TicketId] =
                   [status |-> s,
                    updated_at |-> IF s = tenant_tickets[TicketId].status
                                     THEN tenant_tickets[TicketId].updated_at ELSE clock]]
              /\ clock' = clock + 1
              /\ statusWrites' = Append(statusWrites,
                   [by |-> 0, action_id |-> NoId, status |-> s])
              /\ client' = [calls |-> client.calls + 1, status |-> s, result |-> "ok"]
         ELSE /\ client' = [calls |-> client.calls + 1, status |-> s, result |-> "error"]
              /\ UNCHANGED <<tenant_tickets, clock, statusWrites>>
  /\ UNCHANGED <<env, tenant_messages, ai_conversation_summaries, pc, req, messages, llm, ai,
                 idx, existing, pending, summaryUpdate, faults, injected>>

\* updateTenantTicketStatus: the update is sent as given; an error of the
\* update is thrown to the caller.
UpdateTenantTicketStatus ==
  /\ client.calls < MaxDirect
  /\ Cardinality(Active) < env.parallel
  /\ \E s \in DirectStatuses :
       IF ColumnAccepts(env.column, s)
         THEN /\ tenant_tickets' = [tenant_tickets EXCEPT ![TicketId] =
                   [status |-> s, updated_at |-> clock]]
              /\ clock' = clock + 1
              /\ statusWrites' = Append(statusWrites,
                   [by |-> 0, action_id |-> NoId, status |-> s])
              /\ client' = [calls |-> client.calls + 1, status |-> s, result |-> "ok"]
         ELSE /\ client' = [calls |-> client.calls + 1, status |-> s, result |-> "error"]
              /\ UNCHANGED <<tenant_tickets, clock, statusWrites>>
  /\ UNCHANGED <<env, tenant_messages, ai_conversation_summaries, pc, req, messages, llm, ai,
                 idx, existing, pending, summaryUpdate, faults, injected>>

Step(w) ==
  \/ Handler(w)
  \/ LoadTicket(w)
  \/ LoadMessages(w)
  \/ CallLLM(w)
  \/ InsertAiMessage(w)
  \/ SummarySelect(w)
  \/ SummaryWrite(w)
  \/ HasProcessedAction(w)
  \/ UpdateTicketStatus(w)
  \/ Webhook(w)
  \/ InsertSystemActionMessage(w)
  \/ Respond(w)

Next == SendTenantMessage \/ \E w \in Workers : Step(w)

\* ---------------------------------------------------------- specifications
FullTurn == [ticketId |-> TicketId, messageText |-> "help", observeOnly |-> FALSE]
ObserveTurn == [ticketId |-> TicketId, messageText |-> "help", observeOnly |-> TRUE]
\* A request for a ticket that does not exist, and one without messageText.
MissingTurn == [ticketId |-> MissingId, messageText |-> "help", observeOnly |-> FALSE]
MissingObserveTurn == [ticketId |-> MissingId, messageText |-> "help", observeOnly |-> TRUE]
EmptyTurn == [ticketId |-> TicketId, messageText |-> "", observeOnly |-> FALSE]

\* Invocations run one after the other; the Message Store answers every call;
\* a ticket-status write may fail.
EnvSeq ==
  [turns |-> SeqTurns, parallel |-> 1, faults |-> {"status_update"},
   requests |-> {FullTurn}, lines |-> FALSE,
   menu |-> "exec",
   webhook |-> TRUE, maxHuman |-> MaxHuman]

InitSeq == InitWith(EnvSeq)
SpecSeq == InitSeq /\ [][Next]_vars

\* Invocations run one after the other; any persistence call may fail, and
\* requests may name no ticket or carry no text.
EnvFault ==
  [EnvSeq EXCEPT !.faults = FaultKinds,
                 !.requests = {FullTurn, ObserveTurn, MissingTurn, EmptyTurn}]

InitFault == InitWith(EnvFault)
SpecFault == InitFault /\ [][Next]_vars

\* Invocations overlap freely (no per-ticket lock); no persistence call fails.
EnvRace ==
  [turns |-> RaceTurns, parallel |-> RaceTurns, faults |-> {},
   requests |-> {FullTurn, ObserveTurn}, lines |-> TRUE,
   menu |-> "race",
   webhook |-> TRUE, maxHuman |-> MaxHuman]

InitRace == InitWith(EnvRace)
SpecRace == InitRace /\ [][Next]_vars

\* Invocations run one after the other; reads and writes of the summary
\* table may fail.
EnvSum ==
  [turns |-> SumTurns, parallel |-> 1, faults |-> {"summary_select", "summary_write"},
   requests |-> {FullTurn}, lines |-> TRUE,
   menu |-> "sum",
   webhook |-> TRUE, maxHuman |-> MaxHuman]

InitSum == InitWith(EnvSum)
SpecSum == InitSum /\ [][Next]_vars

\* One invocation on a ticket whose log grows up to MaxLog human messages.
EnvCtx ==
  [turns |-> 1, parallel |-> 1, faults |-> {},
   requests |-> {FullTurn}, lines |-> FALSE,
   menu |-> "sum",
   webhook |-> TRUE, maxHuman |-> MaxLog]

InitCtx == InitWith(EnvCtx)
SpecCtx == InitCtx /\ [][Next]_vars

\* Invocations run one after the other; the Message Store answers every call;
\* a ticket-status write and the escalation notification may fail; the
\* notification channel (N8N_WEBHOOK_URL) is configured or not.
EnvAct ==
  [turns |-> ActTurns, parallel |-> 1, faults |-> {"status_update", "webhook"},
   requests |-> {FullTurn}, lines |-> FALSE,
   menu |-> "act",
   webhook |-> TRUE, maxHuman |-> MaxHuman]

InitAct == \E e \in {EnvAct, [EnvAct EXCEPT !.webhook = FALSE]} : InitWith(e)
SpecAct == InitAct /\ [][Next]_vars

\* Observe-only calls and full turns, one after the other; no call fails; the
\* observed text is short or longer than the prefix kept.
LongText == "a message of 200 characters"
ObserveLongTurn == [ticketId |-> TicketId, messageText |-> LongText, observeOnly |-> TRUE]

EnvObs ==
  [turns |-> ObsTurns, parallel |-> 1, faults |-> {},
   requests |-> {FullTurn, ObserveTurn, ObserveLongTurn}, lines |-> TRUE,
   menu |-> "sum",
   webhook |-> TRUE, maxHuman |-> MaxHuman]

InitObs == InitWith(EnvObs)
SpecObs == InitObs /\ [][Next]_vars

\* Full turns and observe-only calls, one after the other; only the reads and
\* writes of the summary table may fail.
EnvSwallow ==
  [turns |-> SeqTurns, parallel |-> 1, faults |-> {"summary_select", "summary_write"},
   requests |-> {FullTurn, ObserveTurn}, lines |-> TRUE,
   menu |-> "sum",
   webhook |-> TRUE, maxHuman |-> MaxHuman]

InitSwallow == InitWith(EnvSwallow)
SpecSwallow == InitSwallow /\ [][Next]_vars

\* The client API next to the edge function: direct status updates by a human,
\* over each definition of the status column.
EnvDirect(column) ==
  [column |-> column] @@ [EnvSeq EXCEPT !.turns = 1, !.menu = "sum", !.faults = {}]

NextDirect == Next \/ UpdateTenantTicketStatus

InitDirect == \E column \in ColumnTypes : InitWith(EnvDirect(column))
SpecDirect == InitDirect /\ [][NextDirect]_vars

\* Full turns, observe-only calls and direct status updates, one after the
\* other; the executor's status write may fail.
StampTurns == 1
EnvStamp(column) ==
  [column |-> column] @@
  [EnvSeq EXCEPT !.turns = StampTurns, !.menu = "stamp", !.faults = {"status_update"},
                 !.requests = {FullTurn, ObserveTurn}]
InitStamp == \E column \in {"enum", "text"} : InitWith(EnvStamp(column))
SpecStamp == InitStamp /\ [][NextDirect]_vars

\* Full turns, one at a time, whose actions carry no action_id; the store
\* answers every call.
NoIdTurns == 2
EnvNoId == [EnvSeq EXCEPT !.turns = NoIdTurns, !.menu = "noid", !.faults = {}]
InitNoId == InitWith(EnvNoId)
SpecNoId == InitNoId /\ [][Next]_vars

\* Full turns, one at a time, that propose the same action_id again; only the
\* idempotency lookup may fail.
LookupTurns == 2
EnvLookup == [EnvSeq EXCEPT !.turns = LookupTurns, !.menu = "race", !.faults = {"lookup"}]
InitLookup == InitWith(EnvLookup)
SpecLookup == InitLookup /\ [][Next]_vars

\* Full turns, one at a time, with a summary line and actions; only the
\* insert of the AI reply may fail.
ReplyTurns == 2
EnvReply ==
  [EnvSeq EXCEPT !.turns = ReplyTurns, !.menu = "sum", !.faults = {"reply_insert"},
                 !.lines = TRUE]
InitReply == InitWith(EnvReply)
SpecReply == InitReply /\ [][Next]_vars

\* Full turns, one at a time, where the reasoning service answers with JSON
\* objects of any shape.
ShapeTurns == 2
EnvShape == [EnvSeq EXCEPT !.turns = ShapeTurns, !.menu = "shape", !.faults = {}]
InitShape == InitWith(EnvShape)
SpecShape == InitShape /\ [][Next]_vars

\* Turns and sends, one at a time, that name the existing ticket or a ticket
\* that does not exist; the store answers every call.
MissingTurns == 2
EnvMissing ==
  [EnvSeq EXCEPT !.turns = MissingTurns, !.menu = "missing", !.faults = {},
                 !.requests = {FullTurn, MissingTurn, MissingObserveTurn}]
InitMissing == InitWith(EnvMissing)
SpecMissing == InitMissing /\ [][Next]_vars

\* Full turns, one at a time, with a summary line and arrays of actions of
\* every executable type in every order; the store answers every call.
OrderTurns == 1
EnvOrder ==
  [EnvSeq EXCEPT !.turns = OrderTurns, !.menu = "order", !.faults = {}, !.lines = TRUE]
InitOrder == InitWith(EnvOrder)
SpecOrder == InitOrder /\ [][Next]_vars

\* ------------------------------------------------------------------ claims
KnownTypes == {"update_ticket_status", "request_photos", "escalate_to_agent"}

\* Positions of the messages of the ticket whose meta carries action_id = id.
AuditsOf(id) ==
  {i \in 1..Len(tenant_messages) :
     /\ tenant_messages[i].ticket_id = TicketId
     /\ "action_id" \in DOMAIN tenant_messages[i].meta
     /\ tenant_messages[i].meta.action_id = id}

\* Positions of the executor's status writes made for action_id = id.
WritesOf(id) == {k \in 1..Len(statusWrites) : statusWrites[k].action_id = id}

\* C1: sequential idempotency.  When invocations run one after the other (and
\* the Message Store answers), an action_id has at most one audit message and
\* at most one ticket-status write, both made by the same invocation: an
\* invocation that proposes an action_id a previous one has an audit message
\* for writes no status and appends no message for it; and once an invocation
\* that proposed an executable action with that id has finished, the log
\* holds exactly one audit message for the id.
C1_SequentialIdempotency ==
  \A id \in ActionIds :
    /\ Cardinality(AuditsOf(id)) <= 1
    /\ Cardinality(WritesOf(id)) <= 1
    /\ \A k \in WritesOf(id), j \in AuditsOf(id) :
         statusWrites[k].by = tenant_messages[j].by
    /\ \A w \in Workers :
         (/\ pc[w] = "respond200"
          /\ \E i \in 1..Len(ai[w].actions) :
               /\ ai[w].actions[i].action_id = id
               /\ ai[w].actions[i].type \in KnownTypes)
         => Cardinality(AuditsOf(id)) = 1

\* Scenario B: a1 was applied with in_progress by the first invocation; the
\* second proposed a1 with Resolved and has finished; the status is still
\* in_progress and a1's only audit message is the first invocation's.
C1_Witness ==
  /\ pc[2] = "respond200"
  /\ ai[2].actions = <<UpdateStatus("a1", "Resolved")>>
  /\ tenant_tickets[TicketId].status = "in_progress"
  /\ \E j \in AuditsOf("a1") :
       /\ tenant_messages[j].by = 1
       /\ tenant_messages[j].meta.params.status = "in_progress"
       /\ tenant_messages[j].meta.outcome = "ok"

\* Action i of invocation w's batch had no audit message when the loop came to
\* it: no other invocation has a message for its id, and no earlier action of
\* the batch with that id was executed.
NotYetProcessed(w, i) ==
  LET id == ai[w].actions[i].action_id
  IN /\ \A j \in AuditsOf(id) : tenant_messages[j].by = w
     /\ \A h \in 1..(i - 1) :
          ~(ai[w].actions[h].action_id = id /\ ai[w].actions[h].type \in KnownTypes)

\* C10: an update_ticket_status action with a not-yet-processed action_id and a
\* recognized status in any letter case: unless the status write itself failed
\* (outcome failed), the executor made exactly one status write for it, of the
\* lower-cased status, and appended exactly one audit message for the id, with
\* outcome ok; the ticket's status is the one written last.
C10_ValidStatusApplied ==
  /\ statusWrites # <<>> =>
       tenant_tickets[TicketId].status = statusWrites[Len(statusWrites)].status
  /\ \A w \in Workers : pc[w] = "respond200" =>
       \A i \in 1..Len(ai[w].actions) :
         LET a == ai[w].actions[i]
         IN (/\ a.type = "update_ticket_status"
             /\ a.action_id \in ActionIds
             /\ toLowerCase(a.params.status) \in ALLOWED_STATUSES
             /\ NotYetProcessed(w, i))
            => /\ Cardinality(AuditsOf(a.action_id)) = 1
               /\ \A j \in AuditsOf(a.action_id) :
                    LET m == tenant_messages[j]
                    IN /\ m.by = w /\ m.is_system
                       /\ m.meta.action_type = "update_ticket_status"
                       /\ m.meta.params = a.params
                       /\ \/ m.meta.outcome = "ok"
                          \/ m.meta.outcome = "failed" /\ "status_update" \in injected
                       /\ m.meta.outcome = "ok" =>
                            /\ Cardinality(WritesOf(a.action_id)) = 1
                            /\ \A k \in WritesOf(a.action_id) :
                                 statusWrites[k] =
                                   [by |-> w, action_id |-> a.action_id,
                                    status |-> toLowerCase(a.params.status)]

\* An open ticket, the action {status: "Resolved", action_id: a1}: the status
\* is resolved and a1 has its ok audit message.
C10_Witness ==
  /\ pc[1] = "respond200"
  /\ ai[1].actions = <<UpdateStatus("a1", "Resolved")>>
  /\ tenant_tickets[TicketId].status = "resolved"
  /\ \E j \in AuditsOf("a1") : tenant_messages[j].meta.outcome = "ok"

\* C3: graceful degradation.  A full turn whose reasoning-service call failed
\* (the fetch threw, or answered non-OK) is not answered with an error, and
\* when it returns it has appended exactly one system message, of category
\* general.
C3_GracefulDegradation ==
  \A w \in Workers :
    llm[w] \in {"network_error", "non_ok"} =>
      /\ pc[w] # "respond500"
      /\ pc[w] = "respond200" =>
           \E j \in 1..Len(tenant_messages) :
             /\ tenant_messages[j].by = w
             /\ tenant_messages[j].is_system
             /\ "category" \in DOMAIN tenant_messages[j].meta
             /\ tenant_messages[j].meta.category = "general"

\* C4: a turn never waits forever on the reasoning service: an invocation
\* that is inside the handler always has a next step.
C4_TurnNeverWaitsForever ==
  \A w \in Workers : pc[w] \in Running \cup {"hung"} => ENABLED Step(w)

\* C6: every proposed action that passes the idempotency guard produces exactly
\* one system message whose meta holds action_type, action_id, params and an
\* outcome among ok, skipped_invalid_status, failed.  Stated on an invocation
\* that has finished its batch: each action_id it proposed has exactly one
\* such message (its own if the action passed the guard).
C6_OneAuditPerAction ==
  \A w \in Workers : pc[w] = "respond200" =>
    \A i \in 1..Len(ai[w].actions) :
      LET id == ai[w].actions[i].action_id
      IN id \in ActionIds =>
           /\ Cardinality(AuditsOf(id)) = 1
           /\ \A j \in AuditsOf(id) :
                /\ tenant_messages[j].is_system
                /\ {"action_type", "action_id", "params", "outcome"}
                     \subseteq DOMAIN tenant_messages[j].meta
                /\ tenant_messages[j].meta.outcome
                     \in {"ok", "skipped_invalid_status", "failed"}

\* C5: action isolation.  Once executeActions has been entered, every action of
\* the batch is attempted, whatever happened to the earlier ones: an
\* invocation that answers has had the loop reach the last action.
C5_ActionIsolation ==
  \A w \in Workers :
    (pc[w] \in {"respond200", "respond500"} /\ idx[w] >= 1) =>
      idx[w] >= Len(ai[w].actions)

\* C2: under every interleaving of concurrent invocations that propose the
\* same action_id, the action is applied at most once: at most one audit
\* message and at most one ticket-status write exist for the id.
C2_AtMostOnceUnderInterleaving ==
  \A id \in ActionIds :
    /\ Cardinality(AuditsOf(id)) <= 1
    /\ Cardinality(WritesOf(id)) <= 1

\* The stored summary_text of the ticket ("" pieces: none when there is no row).
SummaryText ==
  IF SummaryRows(TicketId) = <<>> THEN <<>> ELSE SummaryRows(TicketId)[1].summary_text

\* The AI replies that carried a non-blank summary_update and whose invocation
\* has come back from upsertConversationSummary, in log order.
IsSuppliedReply(m) ==
  /\ "summary_update" \in DOMAIN m.meta
  /\ ~Blank(m.meta.summary_update)
  /\ pc[m.by] \notin {"summarySelect", "summaryWrite"}

SuppliedLines ==
  LET replies == SelectSeq(tenant_messages, IsSuppliedReply)
  IN [i \in 1..Len(replies) |-> replies[i].meta.summary_update]

\* s_1 followed by "\n- " + s_i for i = 2..N.
RECURSIVE JoinLines(_)
JoinLines(lines) ==
  IF lines = <<>> THEN <<>>
  ELSE IF Len(lines) = 1 THEN <<lines[1]>>
  ELSE JoinLines(SubSeq(lines, 1, Len(lines) - 1)) \o <<"\n- ", lines[Len(lines)]>>

SummaryFaults == {"summary_select", "summary_write"}

\* C7: append-only summary, sequential.  After any number of AI turns run one
\* after the other (no read or write of the summary table failing), the stored
\* summary_text is s_1 followed by "\n- " + s_i, for the non-blank
\* summary_update lines s_i supplied so far, in turn order; there is at most
\* one summary row.  As the supplied lines only grow, each text is a prefix of
\* the next.
C7_AppendOnlySummarySequential ==
  injected \cap SummaryFaults = {} =>
    /\ Len(SummaryRows(TicketId)) <= 1
    /\ SummaryText = JoinLines(SuppliedLines)

\* Three turns have ended, each with its own line, and the text holds the three.
C7_Witness ==
  /\ \A w \in 1..3 : pc[w] = "ok"
  /\ injected = {}
  /\ SuppliedLines = <<AiLine(1), AiLine(2), AiLine(3)>>
  /\ SummaryText = <<AiLine(1), "\n- ", AiLine(2), "\n- ", AiLine(3)>>

\* C8: append-only summary under interleaving.  For every interleaving of
\* concurrent summary appends, every non-blank line supplied by an invocation
\* that has come back from upsertConversationSummary is in summary_text, and
\* the ticket has at most one summary row.
C8_AppendOnlySummaryInterleaved ==
  /\ Len(SummaryRows(TicketId)) <= 1
  /\ \A i \in 1..Len(SuppliedLines) :
       \E k \in 1..Len(SummaryText) : SummaryText[k] = SuppliedLines[i]

\* The n most recent rows of an ascending result.
TailWindow(rows, n) ==
  SubSeq(rows, IF Len(rows) > n THEN Len(rows) - n + 1 ELSE 1, Len(rows))

\* C9: the context window is a tail window.  The history handed to the AI is
\* the HISTORY_LIMIT most recent messages of the ticket in ascending
\* created_at order (all of them when there are no more than that).
C9_ContextIsTailWindow ==
  \A w \in Workers :
    pc[w] = "callLLM" =>
      messages[w] =
        TailWindow(OrderByCreatedAt(MessagesOf(req[w].ticketId)), HISTORY_LIMIT)

\* The four recognized status values (types.ts: UpdateStatus).
RecognizedStatuses == {"open", "in_progress", "resolved", "cancelled"}

\* The action the loop of invocation w is at.
CurrentAction(w) == ai[w].actions[idx[w]]

\* This step is a step of invocation w.
Stepped(w) == pc'[w] # pc[w] \/ idx'[w] # idx[w]

\* No message of the ticket carries this action_id (a missing id never does).
Unprocessed(id) == id = NoId \/ AuditsOf(id) = {}

\* This step appends exactly one row to tenant_messages and changes no other.
AppendsOne ==
  /\ Len(tenant_messages') = Len(tenant_messages) + 1
  /\ SubSeq(tenant_messages', 1, Len(tenant_messages)) = tenant_messages

NewMessage == tenant_messages'[Len(tenant_messages')]

\* C11: an update_ticket_status action whose params.status is missing or not a
\* recognized status, when the loop dispatches it (its action_id has no audit
\* message yet): the dispatch makes no ticket write and goes straight to the
\* audit insert, which appends exactly one system message with outcome
\* skipped_invalid_status and leaves the ticket row (status and updated_at)
\* as it was.
C11_InvalidStatusSkipped ==
  [][\A w \in Workers :
       /\ (/\ pc[w] = "hasProcessedAction" /\ Stepped(w)
           /\ CurrentAction(w).type = "update_ticket_status"
           /\ toLowerCase(CurrentAction(w).params.status) \notin RecognizedStatuses
           /\ Unprocessed(CurrentAction(w).action_id))
          => /\ pc'[w] = "insertSystemActionMessage"
             /\ pending'[w].meta.outcome = "skipped_invalid_status"
             /\ UNCHANGED <<tenant_tickets, tenant_messages, statusWrites>>
       /\ (/\ pc[w] = "insertSystemActionMessage" /\ Stepped(w)
           /\ CurrentAction(w).type = "update_ticket_status"
           /\ toLowerCase(CurrentAction(w).params.status) \notin RecognizedStatuses)
          => /\ UNCHANGED <<tenant_tickets, statusWrites>>
             /\ AppendsOne
             /\ NewMessage.is_system
             /\ NewMessage.ticket_id = req[w].ticketId
             /\ NewMessage.meta.outcome = "skipped_invalid_status"
             /\ NewMessage.meta.action_type = "update_ticket_status"
             /\ NewMessage.meta.params = CurrentAction(w).params
             /\ pc'[w] \in {"hasProcessedAction", "respond200"}
    ]_vars

\* A turn proposed update_ticket_status without a status under a1 and has
\* finished: the ticket row is as created and a1 has one skipped audit message.
C11_Witness ==
  /\ pc[1] = "respond200"
  /\ ai[1].actions = <<UpdateStatus("a1", "")>>
  /\ tenant_tickets[TicketId] = createTenantTicket
  /\ Cardinality(AuditsOf("a1")) = 1
  /\ \A j \in AuditsOf("a1") : tenant_messages[j].meta.outcome = "skipped_invalid_status"

\* The AI reply message of invocation w is in the log.
ReplyPresent(w) ==
  \E j \in 1..Len(tenant_messages) :
    /\ tenant_messages[j].by = w
    /\ tenant_messages[j].is_system
    /\ "category" \in DOMAIN tenant_messages[j].meta

\* C12: when the ticket-status write of an update_ticket_status action fails,
\* the ticket row is unchanged, the audit insert that follows appends exactly
\* one message with outcome failed and the error detail, the loop goes on (no
\* error reaches the caller: the invocation is never answered with 500), and
\* the AI reply of the turn is in the conversation.
C12_FailedWriteIsRecorded ==
  /\ [](\A j \in 1..Len(tenant_messages) :
          ("outcome" \in DOMAIN tenant_messages[j].meta
             /\ tenant_messages[j].meta.outcome = "failed")
          => /\ "error" \in DOMAIN tenant_messages[j].meta
             /\ pc[tenant_messages[j].by] \notin {"respond500", "error"}
             /\ ReplyPresent(tenant_messages[j].by))
  /\ [][\A w \in Workers :
          /\ (pc[w] = "updateStatus" /\ Stepped(w) /\ faults' # faults)
             => /\ pc'[w] = "insertSystemActionMessage"
                /\ pending'[w].meta.outcome = "failed"
                /\ "error" \in DOMAIN pending'[w].meta
                /\ ReplyPresent(w)
                /\ UNCHANGED <<tenant_tickets, tenant_messages, statusWrites>>
          /\ (pc[w] = "insertSystemActionMessage" /\ Stepped(w)
                /\ pending[w].meta.outcome = "failed")
             => /\ UNCHANGED <<tenant_tickets, statusWrites>>
                /\ AppendsOne
                /\ NewMessage.is_system
                /\ NewMessage.meta = pending[w].meta
                /\ pc'[w] \in {"hasProcessedAction", "respond200"}
     ]_vars

\* The write of a1's status in_progress failed: the invocation answered 200,
\* the ticket is still open, a1 has one audit message, with outcome failed.
C12_Witness ==
  /\ pc[1] = "ok"
  /\ tenant_tickets[TicketId] = createTenantTicket
  /\ ReplyPresent(1)
  /\ Cardinality(AuditsOf("a1")) = 1
  /\ \A j \in AuditsOf("a1") :
       /\ tenant_messages[j].by = 1
       /\ tenant_messages[j].meta.outcome = "failed"
       /\ tenant_messages[j].meta.params.status = "in_progress"

\* C13: a direct status update with a value outside the four recognized
\* statuses is rejected (the call fails) and leaves the ticket row, status
\* and updated_at, unchanged.
C13_DirectInvalidStatusRejected ==
  [][(client' # client /\ client'.status \notin RecognizedStatuses)
       => /\ client'.result = "error"
          /\ tenant_tickets' = tenant_tickets
    ]_vars

\* No AI turn has replied: the log holds no system message.
NoAiTurn == \A j \in 1..Len(tenant_messages) : ~tenant_messages[j].is_system

\* The invocations that have returned from upsertConversationSummary in
\* observe-only mode (when NoAiTurn, every answered 200 is one of them).
ObservedCalls ==
  {w \in Workers : pc[w] = "ok" \/ (pc[w] = "respond200" /\ req[w].observeOnly)}

\* Pieces of a summary text of k lines: the lines and the "\n- " between them.
PiecesOf(k) == IF k = 0 THEN 0 ELSE 2 * k - 1

\* C14: observe-only mode.  With no AI turn in between, k observe-only calls
\* leave a summary_text of k lines (one row), each call appending its line at
\* the end of the text the previous one left; a step of an observe-only call
\* creates no message, makes no reasoning-service call, enters no action
\* execution and leaves the ticket row unchanged.
C14_ObserveOnlyAppendsOnly ==
  /\ [](NoAiTurn =>
          /\ Len(SummaryRows(TicketId)) <= 1
          /\ Len(SummaryText) = PiecesOf(Cardinality(ObservedCalls)))
  /\ [][\A w \in Workers :
          (Stepped(w) /\ (req[w].observeOnly \/ req'[w].observeOnly))
          => /\ UNCHANGED <<tenant_messages, tenant_tickets, statusWrites>>
             /\ llm'[w] = "" /\ ai'[w] = NoAi /\ idx'[w] = 0
             /\ pc'[w] \in {"loadTicket", "loadMessages", "summarySelect", "summaryWrite",
                            "respond200", "ok"}
             /\ pc[w] = "summaryWrite" =>
                  /\ ~Blank(summaryUpdate[w])
                  /\ SummaryText' =
                       IF SummaryText = <<>> THEN <<summaryUpdate[w]>>
                       ELSE SummaryText \o <<"\n- ", summaryUpdate[w]>>
     ]_vars

\* Three observe-only calls have returned, no AI turn ran: three lines.
C14_Witness ==
  /\ \A w \in 1..3 : pc[w] = "ok"
  /\ NoAiTurn
  /\ Len(SummaryText) = 5
  /\ tenant_tickets[TicketId] = createTenantTicket
  /\ \E j \in 1..Len(tenant_messages) : ~tenant_messages[j].is_system

\* C15: a failure of the summary read or write is swallowed.  Whatever the
\* summary step did, the invocation goes on exactly as after a success (into
\* executeActions in a full turn, to the 200 response in observe-only mode)
\* and the log keeps the reply; the only invocations answered with an error
\* are those whose reasoning-service call failed; a full turn that answers 200
\* has its reply in the log and has run its whole batch, every action of which
\* has its audit message.
C15_SummaryFailureSwallowed ==
  /\ [](\A w \in Workers :
          /\ pc[w] = "respond500" => llm[w] \in {"network_error", "non_ok"}
          /\ (pc[w] = "respond200" /\ ~req[w].observeOnly) =>
               /\ ReplyPresent(w)
               /\ Len(ai[w].actions) > 0 => idx[w] = Len(ai[w].actions)
               /\ \A i \in 1..Len(ai[w].actions) :
                    AuditsOf(ai[w].actions[i].action_id) # {})
  /\ [][\A w \in Workers :
          (pc[w] \in {"summarySelect", "summaryWrite"} /\ Stepped(w))
          => /\ UNCHANGED <<tenant_messages, tenant_tickets>>
             /\ pc'[w] =
                  IF pc[w] = "summarySelect" THEN "summaryWrite"
                  ELSE IF req[w].observeOnly \/ Len(ai[w].actions) = 0 THEN "respond200"
                  ELSE "hasProcessedAction"
     ]_vars

\* The summary write of a full turn failed (no row was stored); the turn has
\* answered 200 after executing both of its actions.
C15_Witness ==
  /\ pc[1] = "respond200"
  /\ ~req[1].observeOnly
  /\ injected = {"summary_write"}
  /\ SummaryRows(TicketId) = <<>>
  /\ ~Blank(summaryUpdate[1])
  /\ ReplyPresent(1)
  /\ Len(ai[1].actions) = 2
  /\ AuditsOf("a1") # {} /\ AuditsOf("a2") # {}

\* The reason an escalation message gives: params.reason, or the default one.
ReasonText(a) ==
  IF a.params.reason = "" THEN "Escalation requested by assistant." ELSE a.params.reason

\* C16: an escalate_to_agent action whose action_id has no audit message yet.
\* Its dispatch prepares the audit message (outcome ok, the reason in the body)
\* and goes to the notification when a channel is configured, to the audit
\* insert otherwise; the notification, failed or not, goes on to the audit
\* insert; the insert appends exactly that one message.  None of these steps
\* changes the ticket row, and an action_id never has two audit messages.
C16_EscalationAlwaysAudited ==
  /\ [](\A id \in ActionIds : Cardinality(AuditsOf(id)) <= 1)
  /\ [][\A w \in Workers :
          /\ (/\ pc[w] = "hasProcessedAction" /\ Stepped(w)
              /\ CurrentAction(w).type = "escalate_to_agent"
              /\ Unprocessed(CurrentAction(w).action_id))
             => /\ pc'[w] = IF env.webhook THEN "webhook" ELSE "insertSystemActionMessage"
                /\ pending'[w].meta.outcome = "ok"
                /\ UNCHANGED <<tenant_tickets, tenant_messages, statusWrites>>
          /\ (pc[w] = "webhook" /\ Stepped(w))
             => /\ pc'[w] = "insertSystemActionMessage"
                /\ CurrentAction(w).type = "escalate_to_agent"
                /\ UNCHANGED <<tenant_tickets, tenant_messages, statusWrites, pending>>
          /\ (/\ pc[w] = "insertSystemActionMessage" /\ Stepped(w)
              /\ CurrentAction(w).type = "escalate_to_agent")
             => /\ UNCHANGED <<tenant_tickets, statusWrites>>
                /\ AppendsOne
                /\ NewMessage.is_system
                /\ NewMessage.meta.outcome = "ok"
                /\ NewMessage.meta.action_type = "escalate_to_agent"
                /\ NewMessage.body = <<"Escalated to agent: ", ReasonText(CurrentAction(w))>>
                /\ pc'[w] \in {"hasProcessedAction", "respond200"}
     ]_vars

\* The notification of escalation a2 failed; the turn has answered 200, the
\* ticket row is as created and a2 has its one ok audit message.
C16_Witness ==
  /\ pc[1] = "respond200"
  /\ injected = {"webhook"}
  /\ ai[1].actions = <<EscalateToAgent("a2", "gas smell")>>
  /\ tenant_tickets[TicketId] = createTenantTicket
  /\ Cardinality(AuditsOf("a2")) = 1
  /\ \A j \in AuditsOf("a2") :
       /\ tenant_messages[j].meta.outcome = "ok"
       /\ tenant_messages[j].body = <<"Escalated to agent: ", "gas smell">>

\* The text a photo request shows: params.prompt, or the generic prompt.
PromptText(a) ==
  IF a.params.prompt = ""
    THEN "Please share clear photos of the issue to assist diagnosis."
    ELSE a.params.prompt

\* C17: a request_photos action the loop dispatches (its action_id has no
\* audit message yet) goes straight to the audit insert, which appends exactly
\* one system message with outcome ok whose body is params.prompt, or the
\* generic photo prompt when none is supplied; neither step changes the ticket
\* row (status, updated_at).
C17_PhotoRequestOnlyAppends ==
  [][\A w \in Workers :
       /\ (/\ pc[w] = "hasProcessedAction" /\ Stepped(w)
           /\ CurrentAction(w).type = "request_photos"
           /\ Unprocessed(CurrentAction(w).action_id))
          => /\ pc'[w] = "insertSystemActionMessage"
             /\ UNCHANGED <<tenant_tickets, tenant_messages, statusWrites>>
       /\ (/\ pc[w] = "insertSystemActionMessage" /\ Stepped(w)
           /\ CurrentAction(w).type = "request_photos")
          => /\ UNCHANGED <<tenant_tickets, statusWrites>>
             /\ AppendsOne
             /\ NewMessage.is_system
             /\ NewMessage.ticket_id = req[w].ticketId
             /\ NewMessage.meta.outcome = "ok"
             /\ NewMessage.meta.action_type = "request_photos"
             /\ NewMessage.body = <<PromptText(CurrentAction(w))>>
             /\ pc'[w] \in {"hasProcessedAction", "respond200"}
    ]_vars

\* A photo request without a prompt, under a1: the ticket row is as created
\* and a1's one audit message shows the generic prompt.
C17_Witness ==
  /\ pc[1] = "respond200"
  /\ ai[1].actions = <<RequestPhotos("a1", "")>>
  /\ tenant_tickets[TicketId] = createTenantTicket
  /\ Cardinality(AuditsOf("a1")) = 1
  /\ \A j \in AuditsOf("a1") :
       /\ tenant_messages[j].meta.outcome = "ok"
       /\ tenant_messages[j].body =
            <<"Please share clear photos of the issue to assist diagnosis.">>

C19_LogIsAppendOnly ==
  [][/\ Len(tenant_messages') >= Len(tenant_messages)
     /\ SubSeq(tenant_messages', 1, Len(tenant_messages)) = tenant_messages
    ]_vars

\* A full turn with actions and an observe-only call have run around a human
\* message: the log holds a reply, audit messages and the human message.
C19_Witness ==
  /\ pc[1] = "ok" /\ pc[2] = "ok"
  /\ ReplyPresent(1)
  /\ AuditsOf("a1") # {} /\ AuditsOf("a2") # {}
  /\ ~NoAiTurn
  /\ Len(SummaryText) >= 3
  /\ \E j \in 2..Len(tenant_messages) : ~tenant_messages[j].is_system

\* Positions of the messages invocation w inserted.
MessagesBy(w) == {j \in 1..Len(tenant_messages) : tenant_messages[j].by = w}

\* C20: a turn whose reasoning-service answer could not be parsed as JSON works
\* with the fallback decision (the generic reply, category general, severity
\* normal, escalate false, no actions); it never enters the action loop, and
\* when it answers it has appended exactly one message, the reply, and made
\* no ticket-status write.
C20_UnparsableAnswerFallsBack ==
  \A w \in Workers :
    llm[w] = "invalid_json" =>
      /\ ai[w].reply =
           "I will help troubleshoot this issue. Could you share more detail or a photo? "
      /\ ai[w].category = "general"
      /\ ai[w].severity = "normal"
      /\ ai[w].escalate = FALSE
      /\ ai[w].actions = <<>>
      /\ pc[w] \in {"insertAiMessage", "summarySelect", "summaryWrite", "respond200"}
      /\ \A k \in 1..Len(statusWrites) : statusWrites[k].by # w
      /\ pc[w] = "insertAiMessage" => MessagesBy(w) = {}
      /\ pc[w] # "insertAiMessage" =>
           /\ Cardinality(MessagesBy(w)) = 1
           /\ \A j \in MessagesBy(w) :
                /\ tenant_messages[j].is_system
                /\ tenant_messages[j].body = <<ai[w].reply>>
                /\ tenant_messages[j].meta.category = "general"
                /\ tenant_messages[j].meta.severity = "normal"
                /\ "action_id" \notin DOMAIN tenant_messages[j].meta

\* The answer of the second turn was not JSON: the turn has answered 200 with
\* its one reply in the log, after a first turn that did execute an action.
C20_Witness ==
  /\ pc[2] = "respond200"
  /\ llm[2] = "invalid_json"
  /\ Cardinality(MessagesBy(2)) = 1
  /\ AuditsOf("a1") # {}
  /\ tenant_tickets[TicketId].status = "in_progress"

\* ---------------------------------------------------------------------------
\* C21: every full turn on an existing ticket that the reasoning service
\* answered leaves a well-formed AI reply in the log: a non-empty body, a
\* category among the seven known ones and a severity among the four known
\* ones, whatever JSON the service returned.
Categories ==
  {"plumbing", "electrical", "heating", "appliance", "structural", "pest", "general"}
Severities == {"low", "normal", "high", "urgent"}

WellFormedReplyOf(w) ==
  \E j \in MessagesBy(w) :
    /\ tenant_messages[j].is_system
    /\ "category" \in DOMAIN tenant_messages[j].meta
    /\ tenant_messages[j].body \notin {<<"">>, <<Missing>>}
    /\ tenant_messages[j].meta.category \in Categories
    /\ tenant_messages[j].meta.severity \in Severities

Answered(w) ==
  /\ req[w] # NoRequest
  /\ req[w].ticketId = TicketId
  /\ ~req[w].observeOnly
  /\ llm[w] \in {"json", "invalid_json"}
  /\ pc[w] \in {"respond200", "respond500"}

C21_ReplyAlwaysWellFormed == \A w \in Workers : Answered(w) => WellFormedReplyOf(w)

\* ---------------------------------------------------------------------------
\* The data the claim says stays as it was.
Stored == <<tenant_tickets, tenant_messages, ai_conversation_summaries, statusWrites>>

NamesMissing(w) == req[w] # NoRequest /\ req[w].ticketId = MissingId

MissingTurnInert ==
  \A w \in Workers : NamesMissing(w) =>
    /\ UNCHANGED Stored
    /\ (pc'[w] \in Ended => pc'[w] = "error")

MissingSendInert ==
  (client'.result = "not_found" /\ client'.calls # client.calls) =>
    UNCHANGED <<Stored, clock, pc, llm>>

\* C22: a full turn, an observe-only turn or a message append that names a
\* ticket which does not exist ends with an error for the caller and changes
\* nothing: no step of such a turn changes a message, a summary row or the
\* ticket, the turn never reaches the reasoning service and is answered with
\* 500; a send to the missing ticket throws and leaves everything as it was;
\* no message of the missing ticket is ever stored.
C22_MissingTicketChangesNothing ==
  /\ [](\A w \in Workers : NamesMissing(w) =>
          /\ pc[w] \in {"loadTicket", "respond500"}
          /\ llm[w] = "")
  /\ [](\A j \in 1..Len(tenant_messages) : tenant_messages[j].ticket_id # MissingId)
  /\ [][MissingTurnInert /\ MissingSendInert]_vars

C22_Witness ==
  /\ client.result = "not_found"
  /\ \E w \in Workers : pc[w] = "error"
  /\ \E w \in Workers : NamesMissing(w) /\ req[w].observeOnly /\ pc[w] = "respond500"
  /\ Len(tenant_messages) > 0

\* ---------------------------------------------------------------------------
\* Positions of the audit messages and of the reply appended by invocation w,
\* and of its status writes.
AuditsBy(w) == {j \in MessagesBy(w) : "action_type" \in DOMAIN tenant_messages[j].meta}
RepliesBy(w) == {j \in MessagesBy(w) : "category" \in DOMAIN tenant_messages[j].meta}
WritesBy(w) == {k \in 1..Len(statusWrites) : statusWrites[k].by = w}

SummaryPhase == {"summarySelect", "summaryWrite"}
LoopPhase == {"hasProcessedAction", "updateStatus", "webhook", "insertSystemActionMessage"}

\* The number of actions of w's array the loop is through with.
Done(w) == IF pc[w] = "respond200" THEN Len(ai[w].actions) ELSE idx[w] - 1

\* The positions among the first n actions of w that are not skipped by the
\* idempotency guard.
Dispatched(w, n) ==
  {i \in 1..n : ai[w].actions[i].action_id = NoId \/ NotYetProcessed(w, i)}

Rank(S, x) == Cardinality({y \in S : y <= x})

SameAction(meta, action) ==
  /\ meta.action_type = action.type
  /\ meta.params = action.params
  /\ IF action.action_id = NoId THEN "action_id" \notin DOMAIN meta
       ELSE "action_id" \in DOMAIN meta /\ meta.action_id = action.action_id

\* C23: the effects of a full turn come in a fixed order.  While the summary
\* is being updated the turn's reply is in the log and the turn has processed
\* no action; while the actions are processed and afterwards the reply
\* precedes every audit message of the turn, and the audit messages of the
\* turn, read in log order, are those of the actions the loop is through with,
\* in the order of the AI's array; the summary only changes before the first
\* action of the turn.
C23_EffectsInFixedOrder ==
  /\ [](\A w \in Workers :
          /\ pc[w] \in SummaryPhase =>
               RepliesBy(w) # {} /\ AuditsBy(w) = {} /\ WritesBy(w) = {}
          /\ pc[w] \in LoopPhase \cup {"respond200"} =>
               /\ Cardinality(RepliesBy(w)) = 1
               /\ \A j \in AuditsBy(w) : \A k \in RepliesBy(w) : k < j
               /\ Cardinality(AuditsBy(w)) = Cardinality(Dispatched(w, Done(w)))
               /\ \A j \in AuditsBy(w) : \A i \in Dispatched(w, Done(w)) :
                    Rank(AuditsBy(w), j) = Rank(Dispatched(w, Done(w)), i) =>
                      SameAction(tenant_messages[j].meta, ai[w].actions[i]))
  /\ [][ai_conversation_summaries' # ai_conversation_summaries =>
          \E w \in Workers :
            /\ pc[w] = "summaryWrite"
            /\ AuditsBy(w) = {} /\ WritesBy(w) = {}]_vars

C23_Witness ==
  \E w \in Workers :
    /\ pc[w] = "respond200"
    /\ Len(ai_conversation_summaries) = 1
    /\ Cardinality(AuditsBy(w)) = 2
    /\ ai[w].actions[1].type = "escalate_to_agent"
    /\ ai[w].actions[2].type = "update_ticket_status"
    /\ WritesBy(w) # {}

\* ---------------------------------------------------------------------------
\* The outcomes of the audit messages of action_id = id.
OutcomesOf(id) == {tenant_messages[j].meta.outcome : j \in AuditsOf(id)}

\* The loop head of w meets an action whose action_id has an audit message.
MeetsAudited(w) ==
  /\ pc[w] = "hasProcessedAction"
  /\ Stepped(w)
  /\ CurrentAction(w).action_id # NoId
  /\ AuditsOf(CurrentAction(w).action_id) # {}

\* The step goes on to the next action (or returns) and touches nothing.
SkipsSilently(w) ==
  /\ UNCHANGED <<tenant_tickets, tenant_messages, statusWrites, ai_conversation_summaries>>
  /\ IF idx[w] < Len(ai[w].actions)
       THEN pc'[w] = "hasProcessedAction" /\ idx'[w] = idx[w] + 1
       ELSE pc'[w] = "respond200"

\* C24: once an audit message exists for an action_id, with outcome ok,
\* skipped_invalid_status or failed, every later action with that id, of any
\* type and with any params, is skipped without a ticket change and without
\* a new message (the lookup answering); so an id whose action failed or was
\* rejected for its status keeps its single audit message and never gets a
\* status write.
C24_AuditedIdIsNeverRetried ==
  /\ [][\A w \in Workers : MeetsAudited(w) => SkipsSilently(w)]_vars
  /\ [](\A id \in ActionIds :
          OutcomesOf(id) \cap {"failed", "skipped_invalid_status"} # {} =>
            WritesOf(id) = {} /\ Cardinality(AuditsOf(id)) = 1)

\* An invocation is past an action a1 whose id an earlier invocation's failed
\* write holds, and one whose id a2 holds a rejected status; nothing was
\* written for either.
C24_Witness ==
  /\ OutcomesOf("a1") = {"failed"}
  /\ OutcomesOf("a2") = {"skipped_invalid_status"}
  /\ \E w \in Workers :
       /\ pc[w] = "respond200"
       /\ Len(ai[w].actions) = 2
       /\ ai[w].actions[1] = EscalateToAgent("a1", "gas smell")
       /\ ai[w].actions[2] = UpdateStatus("a2", "frozen")
       /\ \A j \in AuditsOf("a1") \cup AuditsOf("a2") : tenant_messages[j].by # w
  /\ statusWrites = <<>>

\* ---------------------------------------------------------------------------
\* C25: whatever actions and params.status spellings the AI proposes, every
\* status the executor writes is one of open, in_progress, resolved,
\* cancelled in lower case, and so is the status the ticket holds.
C25_ExecutorWritesRecognizedStatus ==
  /\ \A k \in 1..Len(statusWrites) :
       statusWrites[k].by \in Workers => statusWrites[k].status \in RecognizedStatuses
  /\ tenant_tickets[TicketId].status \in RecognizedStatuses

\* "Resolved" was written as resolved, and an invocation is through with an
\* action proposing the status frozen.
C25_Witness ==
  /\ tenant_tickets[TicketId].status = "resolved"
  /\ \E w \in Workers :
       /\ pc[w] = "respond200"
       /\ \E i \in 1..Len(ai[w].actions) :
            ai[w].actions[i] = UpdateStatus("a1", "Resolved")
       /\ \E i \in 1..Len(ai[w].actions) :
            ai[w].actions[i] = UpdateStatus("a2", "frozen")
       /\ \E k \in WritesBy(w) : statusWrites[k].status = "resolved"

\* ---------------------------------------------------------------------------
\* C26: updated_at of the ticket is advanced by every successful status
\* write, of the executor or direct, a write of the status the ticket already
\* has included, and no other step changes it.
C26_UpdatedAtFollowsStatusWrites ==
  [][/\ Len(statusWrites') > Len(statusWrites) =>
          tenant_tickets'[TicketId].updated_at > tenant_tickets[TicketId].updated_at
     /\ tenant_tickets'[TicketId].updated_at # tenant_tickets[TicketId].updated_at =>
          Len(statusWrites') = Len(statusWrites) + 1]_vars

\* An invocation wrote cancelled and appended a photo request, then a direct
\* update wrote cancelled again; the row carries the time of the second
\* write.
C26_Witness ==
  /\ Len(statusWrites) = 2
  /\ statusWrites[1].by \in Workers /\ statusWrites[1].status = "cancelled"
  /\ statusWrites[2].by = 0 /\ statusWrites[2].status = "cancelled"
  /\ tenant_tickets[TicketId].updated_at > 2
  /\ \E w \in Workers : pc[w] = "ok" /\ Cardinality(AuditsBy(w)) = 2

\* ---------------------------------------------------------------------------
\* C27: after a turn has ended, with 200 or with 500, every status write it
\* made for an action_id is matched by an audit message of that action_id
\* with outcome ok, also when the store may refuse an insert.
C27_StatusChangeAlwaysAudited ==
  \A w \in Workers : pc[w] \in Ended =>
    \A k \in WritesBy(w) :
      statusWrites[k].action_id # NoId =>
        \E j \in AuditsOf(statusWrites[k].action_id) :
          tenant_messages[j].meta.outcome = "ok"

\* ---------------------------------------------------------------------------
\* The action has no action_id: the key is missing or holds the empty string.
NoIdGiven(action) == action.action_id = NoId \/ action.action_id = ""

\* The loop head of w dispatches the current action instead of skipping it.
Dispatches(w) ==
  /\ idx'[w] = idx[w]
  /\ pc'[w] \in {"updateStatus", "webhook", "insertSystemActionMessage"}

\* C28: an action without an action_id is never skipped by the idempotency
\* guard, however many audit messages of identical earlier actions the log
\* holds: the loop head dispatches it every time, and an invocation whose
\* actions all lack an id has, when it answers, appended one audit message
\* per action and written the status once per action with a recognized
\* status.
C28_NoIdIsNeverSkipped ==
  /\ [][\A w \in Workers :
          (/\ pc[w] = "hasProcessedAction"
           /\ Stepped(w)
           /\ NoIdGiven(CurrentAction(w))
           /\ CurrentAction(w).type \in KnownTypes) => Dispatches(w)]_vars
  /\ [](\A w \in Workers :
          (/\ pc[w] = "respond200"
           /\ \A i \in 1..Len(ai[w].actions) :
                NoIdGiven(ai[w].actions[i]) /\ ai[w].actions[i].type \in KnownTypes)
          => /\ Cardinality(AuditsBy(w)) = Len(ai[w].actions)
             /\ Cardinality(WritesBy(w)) =
                  Cardinality({i \in 1..Len(ai[w].actions) :
                     /\ ai[w].actions[i].type = "update_ticket_status"
                     /\ ai[w].actions[i].params.status \in RecognizedStatuses}))

\* Two invocations each proposed the same photo request with an empty
\* action_id twice: four audit messages; likewise a status update without
\* action_id, twice in one invocation, was written twice.
C28_Witness ==
  \/ /\ \E w \in Workers :
          /\ pc[w] = "respond200"
          /\ ai[w].actions = <<RequestPhotos("", ""), RequestPhotos("", "")>>
          /\ Cardinality(AuditsBy(w)) = 2
      /\ Cardinality(AuditsOf("")) = 4
  \/ \E w \in Workers :
       /\ pc[w] = "respond200"
       /\ ai[w].actions = <<UpdateStatus(NoId, "resolved"), UpdateStatus(NoId, "resolved")>>
       /\ Cardinality(WritesBy(w)) = 2
       /\ Len(statusWrites) = 4

\* ---------------------------------------------------------------------------
\* The idempotency lookup of w's loop head returns an error in this step.
LookupFails(w) ==
  /\ pc[w] = "hasProcessedAction"
  /\ Stepped(w)
  /\ faults' = faults + 1

\* C29: the idempotency lookup fails open.  When the lookup of the loop head
\* fails, the action is dispatched, also when its action_id already has an
\* audit message; the action is then executed a second time.
C29_LookupFailsOpen ==
  [][\A w \in Workers :
       (LookupFails(w) /\ CurrentAction(w).type \in KnownTypes) => Dispatches(w)]_vars

\* a1 was applied by the first invocation; the lookup of the second failed,
\* and a1 was written and audited a second time.
C29_Witness ==
  /\ "lookup" \in injected
  /\ Cardinality(AuditsOf("a1")) = 2
  /\ Cardinality(WritesOf("a1")) = 2
  /\ \E w \in Workers : pc[w] = "respond200" /\ WritesBy(w) # {} /\ WritesBy(w) # WritesOf("a1")

\* ---------------------------------------------------------------------------
\* w is a full turn.
FullTurnOf(w) == req[w] # NoRequest /\ ~req[w].observeOnly

\* The insert of w's reply fails in this step.
ReplyInsertFails(w) ==
  /\ pc[w] = "insertAiMessage"
  /\ Stepped(w)
  /\ faults' = faults + 1

\* C30: in a full turn the summary is updated and actions are executed only
\* after the reply was appended: a full turn that is updating the summary or
\* processing actions has its reply in the log; the step in which the insert
\* of the reply fails sends the turn to its 500 response, and no step of a
\* full turn that has no reply in the log changes the log, the summary, the
\* ticket or the status writes.
C30_NothingBeforeTheReply ==
  /\ [](\A w \in Workers :
          (FullTurnOf(w) /\ pc[w] \in SummaryPhase \cup LoopPhase) => RepliesBy(w) # {})
  /\ [][\A w \in Workers :
          /\ ReplyInsertFails(w) => pc'[w] = "respond500" /\ UNCHANGED Stored
          /\ (/\ FullTurnOf(w) /\ Stepped(w)
              /\ RepliesBy(w) = {}
              /\ pc'[w] # "insertAiMessage" /\ pc[w] # "insertAiMessage")
             => UNCHANGED Stored]_vars
  /\ [](\A w \in Workers :
          (pc[w] = "error" /\ RepliesBy(w) = {}) => MessagesBy(w) = {} /\ WritesBy(w) = {})

\* The first turn appended its reply, a summary row and a status write; the
\* insert of the second turn's reply failed, the turn ended with an error
\* and left no message.
C30_Witness ==
  /\ "reply_insert" \in injected
  /\ Len(ai_conversation_summaries) = 1
  /\ Len(statusWrites) = 1
  /\ \E v, w \in Workers :
       /\ pc[v] = "ok" /\ RepliesBy(v) # {} /\ WritesBy(v) # {}
       /\ pc[w] = "error" /\ MessagesBy(w) = {}

====
